---- MODULE Spec2Model ----
(***************************************************************************)
(* A model of the session controller (reactagent/environment.py,           *)
(* class Environment), of the control loop that drives it                  *)
(* (reactagent/agents/agent_research.py, ResearchAgent.run) and of the     *)
(* entry point (autoresearch/runner.py).                                    *)
(*                                                                         *)
(* Strings the code builds by concatenation are sequences of tokens here,  *)
(* one token per literal or interpolated part, so that "contains" and      *)
(* "begins with" are decided by the parts a string was built from.         *)
(***************************************************************************)
EXTENDS Integers, Sequences, FiniteSets, TLC

VARIABLES
    disk,        \* the durable files of every log dir: <dir>/env_log/...
    work_dir,    \* the workspace folder (args.work_dir) on disk
    args,        \* self._args of the current Environment
    trace,       \* self._trace: [steps, low_level_steps]
    start_time,  \* self._start_time
    now,         \* time.time()
    alarm,       \* the process's SIGALRM timer: [state, at]
    pc,          \* where the caller of the Environment is
    ret,         \* what the last call on the Environment returned or raised
    sessions,    \* how many Environments have been constructed so far
    agent,       \* the ResearchAgent of the process and where its run() is
    children     \* how many child processes of the process are active

vars ==
    <<disk, work_dir, args, trace, start_time, now, alarm, pc, ret, sessions,
      agent, children>>

----------------------------------------------------------------------------
(* Bounds of the model *)

\* execute is not called once len(trace.steps) has reached this
MaxSteps == 3
\* Environments constructed one after the other (one process each)
MaxSessions == 3

----------------------------------------------------------------------------
(* Plain helpers *)

Range(s) == {s[i] : i \in 1..Len(s)}

Min(a, b) == IF a <= b THEN a ELSE b

\* sep.join(parts): parts is a sequence of strings, sep a string
RECURSIVE Join(_, _)
Join(parts, sep) ==
    IF parts = <<>> THEN <<>>
    ELSE IF Len(parts) = 1 THEN parts[1]
    ELSE parts[1] \o sep \o Join(Tail(parts), sep)

\* "x in s" for a string s built from parts
Contains(s, part) == part \in Range(s)

----------------------------------------------------------------------------
(* The action registry, as the Environment sees it *)

FinalAnswer == "Final Answer"

\* self._action_infos: name, usage (field, description), in insertion order
ActionInfos == <<
    [name |-> "Write File",
     usage |-> << <<"file_name", "a valid file name with relative path">>,
                  <<"content", "the content to be written to the file">> >>],
    [name |-> "Retrieval from Research Log",
     usage |-> << <<"current_plan", "a detailed description of the current plan">> >>],
    [name |-> "Append Summary to Research Log",
     usage |-> << <<"content", "a string within 500 character limit">> >>] >>

\* list(self.action_infos.keys())
ActionNames == [i \in 1..Len(ActionInfos) |-> ActionInfos[i].name]

\* self.action_infos[name]
ActionInfo(name) == CHOOSE d \in Range(ActionInfos) : d.name = name

----------------------------------------------------------------------------
(* Exceptions *)

NoException == [type |-> "none", msg |-> <<>>]

\* raised by the SIGALRM handler that __enter__ installs
TimeoutException == [type |-> "TimeoutException", msg |-> <<"Timed out!">>]

\* what execute raises in place of an exception that names a lost connection
ConnectionAborted == [type |-> "Exception", msg |-> <<"Connection aborted for crfm">>]

\* The classes a callable may raise.  SystemExit stands for the classes
\* that derive from BaseException and not from Exception.
ExceptionTypes ==
    {"TooLongPromptError", "LLMError", "EnvException", "TypeError",
     "Exception", "SystemExit"}

\* the classes an "except Exception" clause catches
IsException(e) == e.type # "SystemExit"

Messages ==
    {<<"No space left on device">>,
     <<"('", "Connection aborted.", "', RemoteDisconnected())">>}

\* The exceptions the callables of the model raise: every class with a plain
\* message and, for the classes whose handling reads the message or could be
\* taken for one that does, with a message that names a lost connection.
Exceptions ==
    {[type |-> t, msg |-> <<"No space left on device">>] : t \in ExceptionTypes}
    \cup {[type |-> t, msg |-> m] :
              t \in {"LLMError", "Exception", "SystemExit"}, m \in Messages}

----------------------------------------------------------------------------
(* Observations of execute *)

EndObservation == <<"end">>

ShutDownObservation ==
    <<"The environment has shut down because the maximum number of steps or time has been reached. Please submit your final answer.">>

\* InvalidActionObservation that leaves the last registered name out
InvalidActionObservation_one_short(action_name) ==
    LET actions == Join([i \in 1..(Len(ActionNames) - 1) |-> <<ActionNames[i]>>], <<", ">>)
    IN  <<"Invalid action: ", action_name,
          ". Action did not execute. Please use one of the following actions:\n">>
        \o actions

\* f"Invalid action: {action_name}. Action did not execute. Please use
\* one of the following actions:\n{actions}"
InvalidActionObservation(action_name) ==
    LET actions == Join([i \in 1..Len(ActionNames) |-> <<ActionNames[i]>>], <<", ">>)
    IN  <<"Invalid action: ", action_name,
          ". Action did not execute. Please use one of the following actions:\n">>
        \o actions

\* the usage block: "{", the entries "k: [v]" joined by ",\n", "}"
Usage(action_name) ==
    LET u == ActionInfo(action_name).usage
        entries == [i \in 1..Len(u) |-> <<u[i][1], ": [", u[i][2], "]">>]
    IN  <<"{\n            ">> \o Join(entries, <<",\n            ">>) \o <<"\n}">>

\* invalid_action_error
InvalidActionError(action_name) ==
    <<"The action input for ", action_name,
      " needs to be a valid json with proper entries. You may have missed the comma between entries. Please use the correct format and try again:\n">>
    \o Usage(action_name)

----------------------------------------------------------------------------
(* The files on disk *)

LogDirs == {"logs1", "logs2"}

NoResume == "None"

\* a folder that does not exist
NoDir == [files |-> "absent", backup |-> "absent"]

\* what the tools can make of the workspace's files and of its backup folder
FileStates == {"f0", "f1"}
BackupStates == {"empty", "b1"}

\* the workspace a task starts from
TaskDir == [files |-> "f0", backup |-> "absent"]

NoFile == [steps |-> <<>>, low_level_steps |-> <<>>, action_infos |-> <<>>, exists |-> FALSE]

\* the step indices a snapshot folder step_<n>_files is kept for
StepIndices == 0..(MaxSteps - 1)

\* a log dir nothing was written to
EmptyLogDir ==
    [trace_json |-> NoFile,
     traces |-> [n \in StepIndices |-> NoDir],
     final_files |-> NoDir,
     env |-> FALSE,
     error_txt |-> "",
     overall_time_txt |-> -1]

----------------------------------------------------------------------------
(* The trace *)

\* Step(action, observation, timestamp).  ws is a history field, not in the
\* program: the workspace as it was when the step was recorded.
Step(action, observation, timestamp, ws) ==
    [action |-> action, observation |-> observation, timestamp |-> timestamp, ws |-> ws]

\* json.dump(self.trace, f, cls=EnhancedJSONEncoder): the dataclass as a dict
ToJson(tr) ==
    [steps |-> tr.steps, low_level_steps |-> tr.low_level_steps,
     action_infos |-> ActionNames, exists |-> TRUE]

----------------------------------------------------------------------------
(* Environment.is_final *)

\* time.time() - self.start_time
Elapsed == now - start_time

\* The clock of the model stops one unit after the time budget of the
\* session is used up: nothing in the code tells later times apart.
ClockRuns(dt) == Elapsed + dt <= args.max_time + 1

\* is_final with ">" for ">=" in the test of the step budget
is_final_past_budget ==
    LET curr_step == Len(trace.steps)
        any_final_answer == \E i \in 1..Len(trace.steps) :
                                trace.steps[i].action.name = FinalAnswer
    IN  \/ curr_step > args.max_steps
        \/ any_final_answer
        \/ Elapsed > args.max_time

\* is_final without the test of the time budget
is_final_without_clock ==
    LET curr_step == Len(trace.steps)
        any_final_answer == \E i \in 1..Len(trace.steps) :
                                trace.steps[i].action.name = FinalAnswer
    IN  \/ curr_step >= args.max_steps
        \/ any_final_answer

\* is_final with "==" for ">=" in the test of the step budget
is_final_at_budget ==
    LET curr_step == Len(trace.steps)
        any_final_answer == \E i \in 1..Len(trace.steps) :
                                trace.steps[i].action.name = FinalAnswer
    IN  \/ curr_step = args.max_steps
        \/ any_final_answer
        \/ Elapsed > args.max_time

is_final ==
    LET curr_step == Len(trace.steps)
        any_final_answer == \E i \in 1..Len(trace.steps) :
                                trace.steps[i].action.name = FinalAnswer
    IN  \/ curr_step >= args.max_steps
        \/ any_final_answer
        \/ Elapsed > args.max_time

----------------------------------------------------------------------------
(* Environment.execute *)

\* signal.alarm: the timer is due once dt more units of time have passed
AlarmDue(dt) == alarm.state = "armed" /\ now + dt >= alarm.at

\* What one invocation of a registry callable does, as the Environment sees
\* it: it returns the string out or raises exc, after dt units of time, having
\* left the workspace as write and, with ll, having recorded one low-level
\* step in the trace it was handed.
Returns(out, dt, write, ll) ==
    [kind |-> "return", out |-> out, exc |-> NoException,
     dt |-> dt, write |-> write, ll |-> ll]

Raises(type, msg, dt, write, ll) ==
    [kind |-> "raise", out |-> <<>>, exc |-> [type |-> type, msg |-> msg],
     dt |-> dt, write |-> write, ll |-> ll]

\* the alarm going off inside the callable: the handler raises there
Interrupted(o) == [o EXCEPT !.kind = "raise", !.out = <<>>, !.exc = TimeoutException]

\* Normalize without the except clause for TypeError
Normalize_without_TypeError(action_name, o) ==
    IF o.kind = "return"
        THEN [exc |-> NoException, observation |-> o.out]
    ELSE IF o.exc.type = "TooLongPromptError"
        THEN [exc |-> NoException,
              observation |-> <<"EnvError: too long input for the tool">>]
    ELSE IF o.exc.type = "LLMError"
        THEN [exc |-> NoException, observation |-> <<"LLMError: ">> \o o.exc.msg]
    ELSE IF o.exc.type = "EnvException"
        THEN [exc |-> NoException, observation |-> <<"EnvError: ">> \o o.exc.msg]
    ELSE IF o.exc.type = "TimeoutException"
        THEN [exc |-> o.exc, observation |-> <<>>]
    ELSE IF IsException(o.exc)
        THEN IF Contains(o.exc.msg, "Connection aborted.")
                THEN [exc |-> ConnectionAborted, observation |-> <<>>]
                ELSE [exc |-> NoException,
                      observation |-> <<"EnvError: Error executing ", action_name, ".">>]
    ELSE [exc |-> o.exc, observation |-> <<>>]

\* Normalize without the except clause that raises the TimeoutException again
Normalize_without_TimeoutException(action_name, o) ==
    IF o.kind = "return"
        THEN [exc |-> NoException, observation |-> o.out]
    ELSE IF o.exc.type = "TooLongPromptError"
        THEN [exc |-> NoException,
              observation |-> <<"EnvError: too long input for the tool">>]
    ELSE IF o.exc.type = "LLMError"
        THEN [exc |-> NoException, observation |-> <<"LLMError: ">> \o o.exc.msg]
    ELSE IF o.exc.type = "EnvException"
        THEN [exc |-> NoException, observation |-> <<"EnvError: ">> \o o.exc.msg]
    ELSE IF o.exc.type = "TypeError"
        THEN [exc |-> NoException,
              observation |-> <<"EnvError: ">> \o InvalidActionError(action_name)]
    ELSE IF IsException(o.exc)
        THEN IF Contains(o.exc.msg, "Connection aborted.")
                THEN [exc |-> ConnectionAborted, observation |-> <<>>]
                ELSE [exc |-> NoException,
                      observation |-> <<"EnvError: Error executing ", action_name, ".">>]
    ELSE [exc |-> o.exc, observation |-> <<>>]

\* the try statement around the call: the observation it yields, or the
\* exception that leaves it
Normalize(action_name, o) ==
    IF o.kind = "return"
        THEN [exc |-> NoException, observation |-> o.out]
    ELSE IF o.exc.type = "TooLongPromptError"
        THEN [exc |-> NoException,
              observation |-> <<"EnvError: too long input for the tool">>]
    ELSE IF o.exc.type = "LLMError"
        THEN [exc |-> NoException, observation |-> <<"LLMError: ">> \o o.exc.msg]
    ELSE IF o.exc.type = "EnvException"
        THEN [exc |-> NoException, observation |-> <<"EnvError: ">> \o o.exc.msg]
    ELSE IF o.exc.type = "TypeError"
        THEN [exc |-> NoException,
              observation |-> <<"EnvError: ">> \o InvalidActionError(action_name)]
    ELSE IF o.exc.type = "TimeoutException"
        THEN [exc |-> o.exc, observation |-> <<>>]
    ELSE IF IsException(o.exc)
        THEN IF Contains(o.exc.msg, "Connection aborted.")
                THEN [exc |-> ConnectionAborted, observation |-> <<>>]
                ELSE [exc |-> NoException,
                      observation |-> <<"EnvError: Error executing ", action_name, ".">>]
    ELSE [exc |-> o.exc, observation |-> <<>>]

\* Branch without the isinstance(action_input, dict) test
Branch_without_isinstance(action) ==
    IF action.name = FinalAnswer THEN "final_answer"
    ELSE IF is_final THEN "shut_down"
    ELSE IF action.name \notin Range(ActionNames) THEN "invalid_action"
    ELSE "invoke"

\* Branch with the test of is_final() in front of the test of the name
Branch_budget_first(action) ==
    IF is_final THEN "shut_down"
    ELSE IF action.name = FinalAnswer THEN "final_answer"
    ELSE IF action.name \notin Range(ActionNames) THEN "invalid_action"
    ELSE IF action.args.isdict THEN "invoke"
    ELSE "invalid_input"

\* which branch of execute an action takes
Branch(action) ==
    IF action.name = FinalAnswer THEN "final_answer"
    ELSE IF is_final THEN "shut_down"
    ELSE IF action.name \notin Range(ActionNames) THEN "invalid_action"
    ELSE IF action.args.isdict THEN "invoke"
    ELSE "invalid_input"

\* the observation of execute(action), or the exception exc that leaves it,
\* when the callable (if it is invoked) behaves as o; raised is what the
\* callable raised
Dispatch(action, o) ==
    LET b == Branch(action)
        static(observation) ==
            [exc |-> NoException, observation |-> observation,
             invoked |-> FALSE, raised |-> NoException]
    IN  IF b = "final_answer" THEN static(EndObservation)
        ELSE IF b = "shut_down" THEN static(ShutDownObservation)
        ELSE IF b = "invalid_action" THEN static(InvalidActionObservation(action.name))
        ELSE IF b = "invoke"
            THEN LET call == IF AlarmDue(o.dt) THEN Interrupted(o) ELSE o
                     r == Normalize(action.name, call)
                 IN  [exc |-> r.exc, observation |-> r.observation,
                      invoked |-> TRUE, raised |-> call.exc]
        ELSE static(InvalidActionError(action.name))

\* Appended that returns early, with no Step, once the session has shut down
Appended_unless_shut_down(tr, action, observation, step_time, w, lls) ==
    IF observation = ShutDownObservation
        THEN [steps |-> tr.steps, low_level_steps |-> lls]
        ELSE [steps |-> Append(tr.steps, Step(action, observation, step_time, w)),
              low_level_steps |-> lls]

\* Appended that puts the new Step in front of the steps
Appended_in_front(tr, action, observation, step_time, w, lls) ==
    [steps |-> <<Step(action, observation, step_time, w)>> \o tr.steps,
     low_level_steps |-> lls]

\* trace.steps.append(Step(action, observation, step_time)); lls is what the
\* callable left in trace.low_level_steps
Appended(tr, action, observation, step_time, w, lls) ==
    [steps |-> Append(tr.steps, Step(action, observation, step_time, w)),
     low_level_steps |-> lls]

\* save that clears the snapshots of the other step indices
save_only_this_index(d, log_dir, curr_step, tr, w) ==
    [d EXCEPT ![log_dir].trace_json = ToJson(tr),
              ![log_dir].traces = [n \in StepIndices |->
                                       IF n = curr_step THEN w ELSE NoDir]]

\* Environment.save(curr_step): trace.json, then the snapshot of the workspace
save(d, log_dir, curr_step, tr, w) ==
    [d EXCEPT ![log_dir].trace_json = ToJson(tr),
              ![log_dir].traces[curr_step] = w]

\* what a call did: the exception exc that left it or the observation (of
\* execute) or value (of is_final) it returned; invoked, raised: whether it
\* invoked a registry callable, and what that raised
Result(op, action, r, value) ==
    [op |-> op, action |-> action, observation |-> r.observation,
     exc |-> r.exc, invoked |-> r.invoked, raised |-> r.raised, value |-> value]

NoAction == [name |-> "", args |-> [isdict |-> FALSE, text |-> ""]]
Nothing ==
    [exc |-> NoException, observation |-> <<>>, invoked |-> FALSE,
     raised |-> NoException]

\* Environment.execute(action), when the callable (if invoked) behaves as o
ExecuteCall(action, o) ==
    /\ pc = "running"
    /\ Len(trace.steps) < MaxSteps
    /\ ClockRuns(o.dt)
    /\ LET curr_step == Len(trace.steps)
           r == Dispatch(action, o)
           step_time == IF r.invoked THEN now + o.dt ELSE now
           w == IF r.invoked THEN o.write ELSE work_dir
           lls == IF r.invoked /\ o.ll
                     THEN Append(trace.low_level_steps,
                                 [action |-> action, timestamp |-> now])
                     ELSE trace.low_level_steps
       IN  /\ now' = step_time
           /\ work_dir' = w
           /\ alarm' = IF r.invoked /\ AlarmDue(o.dt)
                          THEN [alarm EXCEPT !.state = "fired"] ELSE alarm
           /\ ret' = Result("execute", action, r, FALSE)
           /\ IF r.exc = NoException
                 THEN /\ trace' = Appended(trace, action, r.observation,
                                            step_time, w, lls)
                      /\ disk' = save(disk, args.log_dir, curr_step, trace', w)
                      /\ pc' = pc
                 ELSE /\ trace' = [trace EXCEPT !.low_level_steps = lls]
                      /\ disk' = disk
                      /\ pc' = "raising"
    /\ UNCHANGED <<args, start_time, sessions>>

\* a call of execute by the caller
Execute(action, o) ==
    /\ ExecuteCall(action, o)
    /\ UNCHANGED <<agent, children>>

\* a call of is_final by the caller
IsFinal ==
    /\ pc = "running"
    /\ ret' = Result("is_final", NoAction, Nothing, is_final)
    /\ UNCHANGED <<disk, work_dir, args, trace, start_time, now, alarm, pc,
                   sessions, agent, children>>

----------------------------------------------------------------------------
(* ResearchAgent: the fields of the agent and the locals of run() *)

Dict == [isdict |-> TRUE, text |-> "{...}"]
NotADict == [isdict |-> FALSE, text |-> "not-a-mapping"]

\* Action("Write File", {...}) with a well-formed input
WriteFileAction == [name |-> "Write File", args |-> Dict]

NoCompletion == [kind |-> "none", parses |-> FALSE, action |-> "", text |-> <<>>]

\* no ResearchAgent has been constructed in this process
NoAgent ==
    [at |-> "none",
     args |-> [agent_max_steps |-> 0, max_retries |-> 0],
     history_steps |-> <<>>,
     feedback |-> <<>>,
     relevant_history |-> <<>>,
     prompt |-> <<>>,
     tries |-> 0,
     completion |-> NoCompletion,
     valid_response |-> FALSE,
     entries |-> [Action |-> "", ActionInput |-> NotADict],
     action_input |-> NotADict,
     parsing_error |-> <<>>,
     full_observation |-> <<>>,
     observation |-> <<>>,
     descriptions |-> <<>>,
     fast_calls |-> <<>>,
     full_log |-> <<>>,
     result |-> <<>>]

----------------------------------------------------------------------------
(* Environment.__init__ *)

\* the folder os.makedirs(work_dir, exist_ok=True) leaves
MadeDir(w) == IF w = NoDir THEN [files |-> "none", backup |-> "absent"] ELSE w

\* _initialize_env, from the disk d and the workspace w; small: the
\* workspace is below 10MB.  What it leaves on disk, and the exception that
\* ends it, if any.
initialize_env(d, w, a, small) ==
    LET w1 == MadeDir(w)
        \* shutil.copytree(work_dir, <log_dir>/env) fails on an existing folder
        env_exists == small /\ d[a.log_dir].env
        d1 == IF small THEN [d EXCEPT ![a.log_dir].env = TRUE] ELSE d
        \* the backup folder, emptied or made
        w2 == [w1 EXCEPT !.backup = "empty"]
        \* <log_dir>/traces/step_<resume_step>_files
        resume_dir == IF a.resume_step \in StepIndices
                         THEN d[a.log_dir].traces[a.resume_step] ELSE NoDir
    IN  IF env_exists
            THEN [exc |-> "FileExistsError", disk |-> d, work_dir |-> w1]
        ELSE IF a.resume = NoResume
            THEN [exc |-> "none", disk |-> d1, work_dir |-> w2]
        ELSE IF resume_dir = NoDir
            \* shutil.rmtree(work_dir) is done, shutil.copytree fails
            THEN [exc |-> "FileNotFoundError", disk |-> d1, work_dir |-> NoDir]
        ELSE [exc |-> "none", disk |-> d1, work_dir |-> resume_dir]

\* [s for s in prev_trace.low_level_steps if s.timestamp < t]
Before(low_level_steps, t) ==
    SelectSeq(low_level_steps, LAMBDA s : s.timestamp < t)

\* prev_trace.steps[:resume_step+1]
Prefix(steps, resume_step) == SubSeq(steps, 1, Min(resume_step + 1, Len(steps)))

\* _initialize_trace, from the disk d
initialize_trace(d, a) ==
    IF a.resume = NoResume
        THEN [exc |-> "none", trace |-> [steps |-> <<>>, low_level_steps |-> <<>>]]
    ELSE LET prev_trace == d[a.resume].trace_json
             steps == Prefix(prev_trace.steps, a.resume_step)
         IN  IF ~prev_trace.exists
                 THEN [exc |-> "FileNotFoundError",
                       trace |-> [steps |-> <<>>, low_level_steps |-> <<>>]]
             ELSE IF steps = <<>>
                 THEN [exc |-> "IndexError",
                       trace |-> [steps |-> <<>>, low_level_steps |-> <<>>]]
             ELSE [exc |-> "none",
                   trace |-> [steps |-> steps,
                              low_level_steps |->
                                  Before(prev_trace.low_level_steps,
                                         steps[Len(steps)].timestamp)]]

NoAlarm == [state |-> "unset", at |-> 0]

\* Environment(args) in a new process, at time t
Constructed(d, w, a, small, t, n) ==
    LET e == initialize_env(d, w, a, small)
        tr == initialize_trace(e.disk, a)
        exc == IF e.exc # "none" THEN e.exc ELSE tr.exc
    IN  [disk |-> e.disk,
         work_dir |-> e.work_dir,
         args |-> a,
         trace |-> IF e.exc = "none" THEN tr.trace
                   ELSE [steps |-> <<>>, low_level_steps |-> <<>>],
         start_time |-> t,
         now |-> t,
         alarm |-> NoAlarm,
         pc |-> IF exc = "none" THEN "constructed" ELSE "failed",
         ret |-> [Result("init", NoAction, Nothing, FALSE)
                     EXCEPT !.exc = [type |-> exc, msg |-> <<>>]],
         sessions |-> n]

----------------------------------------------------------------------------
(* The session: with Environment(args) as env: ...; env.save("final") *)

\* a new process runs Environment(a); the disk is as the last one left it
EnvInit(a, small) ==
    /\ pc \in {"done", "aborted", "failed"}
    /\ sessions < MaxSessions
    /\ LET s == Constructed(disk, work_dir, a, small, now, sessions + 1)
       IN  /\ disk' = s.disk
           /\ work_dir' = s.work_dir
           /\ args' = s.args
           /\ trace' = s.trace
           /\ start_time' = s.start_time
           /\ now' = s.now
           /\ alarm' = s.alarm
           /\ pc' = s.pc
           /\ ret' = s.ret
           /\ sessions' = s.sessions
           /\ agent' = NoAgent
           /\ children' = 0

\* __enter__: the handler is installed and the alarm set
Enter ==
    /\ pc = "constructed"
    /\ alarm' = [state |-> "armed", at |-> now + args.max_time]
    /\ pc' = "running"
    /\ UNCHANGED <<disk, work_dir, args, trace, start_time, now, ret, sessions,
                   agent, children>>

\* Time passes in the caller, between two calls on the Environment.  When
\* the alarm goes off there, the caller's code decides: caught says that a
\* try statement of the caller swallows the TimeoutException.
Caller(dt, caught) ==
    /\ pc = "running"
    /\ dt > 0
    /\ ClockRuns(dt)
    /\ now' = now + dt
    /\ IF AlarmDue(dt)
          THEN /\ alarm' = [alarm EXCEPT !.state = "fired"]
               /\ pc' = IF caught THEN pc ELSE "raising"
               /\ ret' = [Result("caller", NoAction, Nothing, FALSE)
                             EXCEPT !.exc = IF caught THEN NoException
                                            ELSE TimeoutException]
          ELSE /\ UNCHANGED <<alarm, pc>>
               /\ ret' = Result("caller", NoAction, Nothing, FALSE)
    /\ UNCHANGED <<disk, work_dir, args, trace, start_time, sessions, agent, children>>

NoArgs == [max_steps |-> 0, max_time |-> 0, log_dir |-> "", resume |-> NoResume,
           resume_step |-> 0]

\* the process has ended: nothing of the Environment is left in memory
Ended ==
    /\ args' = NoArgs
    /\ trace' = [steps |-> <<>>, low_level_steps |-> <<>>]
    /\ start_time' = 0
    /\ alarm' = NoAlarm
    /\ ret' = Result("none", NoAction, Nothing, FALSE)
    /\ agent' = NoAgent

\* __exit__(exc_type, exc_value, traceback), taking dt units of time: the
\* active children are terminated and joined, error.txt is written if an
\* exception left the with body, then overall_time.txt.  The alarm set by
\* __enter__ is still pending: when it goes off in child.join(), the
\* handler's TimeoutException leaves __exit__ there.
Teardown(dt) ==
    /\ pc \in {"running", "raising"}
    \* the with body ends while no frame of run() is executing
    /\ pc = "running" => agent.at \in {"none", "start", "suspended", "returned"}
    \* child.join() waits only where there is a child
    /\ dt > 0 => children > 0
    /\ ClockRuns(dt)
    /\ now' = now + dt
    /\ IF AlarmDue(dt)
          THEN /\ disk' = disk
               /\ children' = children
               /\ pc' = "aborted"
               /\ Ended
          ELSE /\ children' = 0
               /\ disk' = [disk EXCEPT
                      ![args.log_dir].error_txt =
                          IF pc = "raising" THEN ret.exc.type ELSE @,
                      ![args.log_dir].overall_time_txt = Elapsed + dt]
               /\ IF pc = "raising"
                     \* the exception leaves the with statement and ends the process
                     THEN /\ pc' = "aborted"
                          /\ Ended
                     ELSE /\ pc' = "left"
                          /\ UNCHANGED <<args, trace, start_time, alarm, ret, agent>>
    /\ UNCHANGED <<work_dir, sessions>>

Exit == \E dt \in {0, 1} : Teardown(dt)

\* env.save("final"), after the with statement
SaveFinal ==
    /\ pc = "left"
    /\ disk' = [disk EXCEPT ![args.log_dir].trace_json = ToJson(trace),
                            ![args.log_dir].final_files = work_dir]
    /\ pc' = "done"
    /\ Ended
    /\ UNCHANGED <<work_dir, now, sessions, children>>

----------------------------------------------------------------------------
(* Inputs *)

\* args.max_steps
Budgets == 1..(MaxSteps - 1)

\* args.max_time
TimeBudgets == {1}

PristineDisk == [l \in LogDirs |-> EmptyLogDir]

FreshArgs ==
    [max_steps : Budgets, max_time : TimeBudgets, log_dir : {"logs1"},
     resume : {NoResume}, resume_step : {0}]

\* the actions a caller hands to execute
Actions ==
    {[name |-> FinalAnswer, args |-> Dict],
     [name |-> "Write File", args |-> Dict],
     [name |-> "Write File", args |-> NotADict],
     [name |-> "NoSuchTool", args |-> Dict]}

WrittenDir == [files |-> "f1", backup |-> "b1"]

\* the behaviours of a callable
Outcomes ==
    {Returns(<<"ok">>, dt, w, FALSE) : dt \in {0, 1}, w \in {WrittenDir}}
    \cup {Raises(e.type, e.msg, 0, WrittenDir, FALSE) : e \in Exceptions}

----------------------------------------------------------------------------
(* One session on a new log dir, driven by any caller *)

Init ==
    \E a \in FreshArgs :
        LET s == Constructed(PristineDisk, TaskDir, a, TRUE, 0, 1)
        IN  /\ disk = s.disk
            /\ work_dir = s.work_dir
            /\ args = s.args
            /\ trace = s.trace
            /\ start_time = s.start_time
            /\ now = s.now
            /\ alarm = s.alarm
            /\ pc = s.pc
            /\ ret = s.ret
            /\ sessions = s.sessions
            /\ agent = NoAgent
            /\ children = 0

Next ==
    \/ Enter
    \/ \E action \in Actions, o \in Outcomes : Execute(action, o)
    \/ IsFinal
    \/ \E caught \in BOOLEAN : Caller(1, caught)
    \/ Exit
    \/ SaveFinal

Spec == Init /\ [][Next]_vars

----------------------------------------------------------------------------
(* Properties of Environment.execute and Environment.is_final *)

\* a step of the session in which execute(ret'.action) returned
ExecuteReturned == pc = "running" /\ pc' = "running" /\ ret'.op = "execute"

\* a step of the session in which an exception left execute(ret'.action)
ExecuteRaised == pc = "running" /\ pc' = "raising" /\ ret'.op = "execute"

Last(s) == s[Len(s)]

AnyFinalAnswer(steps) == \E i \in 1..Len(steps) : steps[i].action.name = FinalAnswer

\* the number of steps the trace had when the last call of execute began
StepsBefore ==
    IF ret.op = "execute" /\ ret.exc = NoException
        THEN Len(trace.steps) - 1 ELSE Len(trace.steps)

\* C1: budget enforcement.  A session starts with no steps and every call of
\* execute that returns appends one, so after B = args.max_steps calls the
\* trace has at least B steps.  From then on is_final() returns true, and
\* every execute of an action other than "Final Answer", registered or not,
\* returns the shut-down observation and invokes no registry callable.
C1_BudgetEnforcement ==
    /\ (ret.op = "is_final" /\ Len(trace.steps) >= args.max_steps => ret.value)
    /\ (/\ ret.op = "execute"
        /\ ret.action.name # FinalAnswer
        /\ StepsBefore >= args.max_steps
        => /\ ret.exc = NoException
           /\ ret.observation = ShutDownObservation
           /\ ~ret.invoked)

\* C1, its case: the step budget alone (no "Final Answer", time left) shut
\* the session down, and a registered action with proper input was refused
C1_Witness ==
    /\ ret.op = "execute"
    /\ ret.action = [name |-> "Write File", args |-> Dict]
    /\ Len(trace.steps) = args.max_steps + 1
    /\ ~AnyFinalAnswer(trace.steps)
    /\ Elapsed <= args.max_time
    /\ ret.observation = ShutDownObservation

\* C2: every call of execute that returns appends exactly one Step, made of
\* the action, the observation returned and the time of the call's end, on
\* every branch; and within a session the steps already in the trace stay as
\* they are (so len(steps) never decreases).
C2_OneStepPerExecute ==
    [][/\ ExecuteReturned
          => /\ ret'.exc = NoException
             /\ trace'.steps =
                    Append(trace.steps,
                           Step(ret'.action, ret'.observation, now', work_dir'))
       /\ pc = "running" /\ pc' \in {"running", "raising", "left"}
          => /\ Len(trace'.steps) >= Len(trace.steps)
             /\ SubSeq(trace'.steps, 1, Len(trace.steps)) = trace.steps]_vars

\* C2, its case: a second step was appended for an error that execute
\* normalized, and the first step is still in place
C2_Witness ==
    /\ ret.op = "execute"
    /\ Len(trace.steps) = 2
    /\ ret.raised.type = "EnvException"
    /\ Last(trace.steps).observation = ret.observation
    /\ trace.steps[1].observation = <<"ok">>

\* C3: is_final() returns true if and only if len(steps) >= the step budget,
\* or a recorded step's action is "Final Answer", or the time elapsed since
\* the session's start exceeds the time budget; and the call leaves the trace
\* (in memory and on disk) as it was.
C3_IsFinal ==
    [][pc = "running" /\ pc' = "running" /\ ret'.op = "is_final"
       => /\ ret'.value <=> \/ Len(trace.steps) >= args.max_steps
                            \/ AnyFinalAnswer(trace.steps)
                            \/ now - start_time > args.max_time
          /\ trace' = trace
          /\ disk' = disk]_vars

\* C3, its case: is_final() returned true for the elapsed time alone
C3_Witness ==
    /\ ret.op = "is_final"
    /\ ret.value
    /\ Len(trace.steps) < args.max_steps
    /\ ~AnyFinalAnswer(trace.steps)

\* C4: in a session that is not final, execute of an action that is neither
\* "Final Answer" nor registered returns an observation that contains
\* "Invalid action" and every registered name, invokes no callable, and
\* appends a Step with that observation.
C4_UnknownAction ==
    [][/\ pc = "running" /\ pc' \in {"running", "raising"}
       /\ ret'.op = "execute"
       /\ ~is_final
       /\ ret'.action.name \notin Range(ActionNames) \cup {FinalAnswer}
       => /\ ret'.exc = NoException
          /\ Contains(ret'.observation, "Invalid action: ")
          /\ \A i \in 1..Len(ActionInfos) :
                 Contains(ret'.observation, ActionInfos[i].name)
          /\ ~ret'.invoked
          /\ Len(trace'.steps) = Len(trace.steps) + 1
          /\ Last(trace'.steps).action = ret'.action
          /\ Last(trace'.steps).observation = ret'.observation]_vars

\* C4, its case
C4_Witness ==
    /\ ret.op = "execute"
    /\ ret.action.name = "NoSuchTool"
    /\ Contains(ret.observation, "Invalid action: ")
    /\ Last(trace.steps).action.name = "NoSuchTool"

\* C5: in a session that is not final, execute of a registered action whose
\* input is not a mapping returns the invalid-input observation with the
\* action's usage, does not invoke the callable, raises nothing and appends
\* a Step.
C5_MalformedArgs ==
    [][/\ pc = "running" /\ pc' \in {"running", "raising"}
       /\ ret'.op = "execute"
       /\ ~is_final
       /\ ret'.action.name \in Range(ActionNames)
       /\ ~ret'.action.args.isdict
       => /\ ret'.exc = NoException
          /\ ret'.observation = InvalidActionError(ret'.action.name)
          /\ \A i \in 1..Len(ActionInfo(ret'.action.name).usage) :
                 Contains(ret'.observation, ActionInfo(ret'.action.name).usage[i][1])
          /\ ~ret'.invoked
          /\ Len(trace'.steps) = Len(trace.steps) + 1
          /\ Last(trace'.steps).action = ret'.action
          /\ Last(trace'.steps).observation = ret'.observation]_vars

\* C5, its case
C5_Witness ==
    /\ ret.op = "execute"
    /\ ret.action = [name |-> "Write File", args |-> NotADict]
    /\ Contains(ret.observation, "file_name")
    /\ Len(trace.steps) = 1

\* the observation the error-normalization table gives for exception e of
\* the callable of action name
NormalizedObservation(e, name) ==
    IF e.type = "TooLongPromptError" THEN <<"EnvError: too long input for the tool">>
    ELSE IF e.type = "LLMError" THEN <<"LLMError: ">> \o e.msg
    ELSE IF e.type = "EnvException" THEN <<"EnvError: ">> \o e.msg
    ELSE IF e.type = "TypeError" THEN <<"EnvError: ">> \o InvalidActionError(name)
    ELSE <<"EnvError: Error executing ", name, ".">>

\* the last call of execute invoked the callable, which raised, and execute
\* returned observation obs and recorded it in a Step
ReturnedAndRecorded(obs) ==
    /\ ret.exc = NoException
    /\ ret.observation = obs
    /\ Last(trace.steps).action = ret.action
    /\ Last(trace.steps).observation = obs

NamesLostConnection(e) == Contains(e.msg, "Connection aborted.")

CallableRaised ==
    /\ pc = "running" /\ pc' \in {"running", "raising"}
    /\ ret'.op = "execute" /\ ret'.invoked /\ ret'.raised # NoException

LetThrough(e) ==
    \/ e = TimeoutException
    \/ ~IsException(e)
    \/ e.type = "Exception" /\ NamesLostConnection(e)

----------------------------------------------------------------------------
(* Sessions one after the other, fresh or resumed, on two log dirs *)

\* the arguments of a later run: any log dir, and with --resume any log dir
\* and any step index
LaterArgs ==
    [max_steps : {MaxSteps}, max_time : {2}, log_dir : LogDirs,
     resume : {NoResume}, resume_step : {0}]
    \cup [max_steps : {MaxSteps}, max_time : {2}, log_dir : LogDirs,
          resume : LogDirs, resume_step : StepIndices]

\* the tools of these sessions: each call records a low-level step and
\* leaves the workspace's files in one of two states, and takes time or not
ToolRuns ==
    {Returns(<<"ok">>, 1, [files |-> "f1", backup |-> "b1"], TRUE),
     Returns(<<"ok">>, 0, [files |-> "f0", backup |-> "b1"], TRUE)}

InitResume ==
    \E a \in [max_steps : {MaxSteps}, max_time : {2}, log_dir : {"logs1"},
              resume : {NoResume}, resume_step : {0}] :
        LET s == Constructed(PristineDisk, TaskDir, a, TRUE, 0, 1)
        IN  /\ disk = s.disk
            /\ work_dir = s.work_dir
            /\ args = s.args
            /\ trace = s.trace
            /\ start_time = s.start_time
            /\ now = s.now
            /\ alarm = s.alarm
            /\ pc = s.pc
            /\ ret = s.ret
            /\ sessions = s.sessions
            /\ agent = NoAgent
            /\ children = 0

NextResume ==
    \/ Enter
    \/ \E o \in ToolRuns : Execute(WriteFileAction, o)
    \/ Exit
    \/ SaveFinal
    \/ \E a \in LaterArgs, small \in BOOLEAN : EnvInit(a, small)

SpecResume == InitResume /\ [][NextResume]_vars

----------------------------------------------------------------------------
(* Properties of resume and of the snapshots *)

\* the Environment has just been constructed from the serialized trace of
\* args.resume, which has more than args.resume_step steps
Resumed ==
    /\ pc = "constructed"
    /\ args.resume # NoResume
    /\ args.resume_step < Len(disk[args.resume].trace_json.steps)

\* the trace and the workspace are those of step k of the serialized trace prev
RestoredTo(prev, k) ==
    /\ trace.steps = SubSeq(prev.steps, 1, k + 1)
    /\ trace.low_level_steps =
           SelectSeq(prev.low_level_steps,
                     LAMBDA s : s.timestamp < prev.steps[k + 1].timestamp)
    /\ work_dir = prev.steps[k + 1].ws

\* C9 as stated: resuming from a serialized trace with n steps at index k,
\* 0 <= k < n, yields the prior steps 0..k unchanged, the prior low-level
\* steps with a timestamp below that of step k, and a workspace equal to the
\* snapshot recorded for step k.
C9_AsStated ==
    Resumed => RestoredTo(disk[args.resume].trace_json, args.resume_step)

\* C9 where the log dir of the resumed run is the one resumed from: there
\* the claim holds
C9_SameLogDir ==
    Resumed /\ args.log_dir = args.resume
    => RestoredTo(disk[args.resume].trace_json, args.resume_step)

\* C9, the case of C9_SameLogDir: a run resumed at step 0 of a trace of
\* two steps, with a low-level step kept and one dropped
C9_SameLogDirWitness ==
    /\ Resumed /\ args.log_dir = args.resume
    /\ args.resume_step = 0
    /\ Len(disk[args.resume].trace_json.steps) = 2
    /\ Len(trace.steps) = 1
    /\ Len(trace.low_level_steps) = 1
    /\ Len(disk[args.resume].trace_json.low_level_steps) = 2

\* every step of the trace has its snapshot folder in the log dir, holding
\* the workspace as it was when the step was recorded
SnapshotsCover ==
    \A i \in 1..Len(trace.steps) :
        /\ i - 1 \in StepIndices
        /\ disk[args.log_dir].traces[i - 1] # NoDir
        /\ disk[args.log_dir].traces[i - 1] = trace.steps[i].ws

\* C10 as stated: in every state of a session, fresh or resumed, after any
\* number of execute calls, a snapshot exists for every step index
\* 0..len(steps)-1 and holds the workspace as it was when that step was
\* recorded; and an execute call leaves the snapshots of the earlier indices
\* as they are.
C10_AsStated ==
    [][/\ pc' \in {"constructed", "running"} => SnapshotsCover'
       /\ ExecuteReturned
          => \A n \in StepIndices :
                 n < Len(trace.steps)
                 => disk'[args.log_dir].traces[n] = disk[args.log_dir].traces[n]]_vars

\* C10 in the sessions that are fresh or resumed on the log dir they resume
\* from: there the claim holds
C10_SameLogDir ==
    [][/\ pc' \in {"constructed", "running"} /\ args'.resume \in {NoResume, args'.log_dir}
          => SnapshotsCover'
       /\ ExecuteReturned
          => \A n \in StepIndices :
                 n < Len(trace.steps)
                 => disk'[args.log_dir].traces[n] = disk[args.log_dir].traces[n]]_vars

----------------------------------------------------------------------------
(* ResearchAgent.run: one action for each stretch of the loop body between
   two places where the program can block or be interrupted *)

\* --max-retries
MaxRetries == 2

\* summarize_observation: the size of a block
bs == 10000

\* len(text): the long texts of the model carry their length in their name,
\* every other text counts as one character (all of them are far shorter
\* than a block, and the code only compares lengths with 10000 and cuts in
\* blocks of bs)
Chars(tok) ==
    CASE tok = "x*10000" -> 10000
      [] tok = "x*10001" -> 10001
      [] tok = "x*20000" -> 20000
      [] tok = "x*20001" -> 20001
      [] tok = "x*25000" -> 25000
      [] OTHER -> 1

RECURSIVE len(_)
len(text) == IF text = <<>> THEN 0 ELSE Chars(Head(text)) + len(Tail(text))

\* len([observation[i:i+bs] for i in range(0, len(observation), bs)])
Blocks(observation) == (len(observation) + bs - 1) \div bs

\* self.all_tool_names
all_tool_names == Range(ActionNames)

\* the prompt of a cycle before the first completion; no step is in
\* history_steps when it is built
Prompt(relevant_history, feedback) ==
    <<"initial_prompt", "Here is a summary of relevant actions and observations you have done:">>
    \o relevant_history
    \o <<"Here are the 3 most recent actions actions and observations",
         "Previous Feedback from Human: ">> \o feedback \o <<"Now let's start!">>

IncorrectFormat ==
    <<"Your response was in incorrect format. Please provide a valid response with all entries: ">>

NoValidResponse == <<"No valid response after max_retries">>

Marker == "[Observation]:"

\* completion.split("[Observation]:")[1], for a completion holding the marker
RECURSIVE UpToMarker(_)
UpToMarker(text) ==
    IF text = <<>> \/ Head(text) = Marker THEN <<>>
    ELSE <<Head(text)>> \o UpToMarker(Tail(text))

RECURSIVE AfterMarker(_)
AfterMarker(text) ==
    IF Head(text) = Marker THEN UpToMarker(Tail(text)) ELSE AfterMarker(Tail(text))

NameError == [type |-> "NameError", msg |-> <<"name 'fp' is not defined">>]

EnvVars ==
    <<disk, work_dir, args, trace, start_time, now, alarm, pc, ret, sessions,
      children>>

\* dt units of time pass while the agent's code runs; the alarm fires if due
Tick(dt) ==
    /\ ClockRuns(dt)
    /\ now' = now + dt
    /\ alarm' = IF AlarmDue(dt) THEN [alarm EXCEPT !.state = "fired"] ELSE alarm

\* the exception e leaves run(), and with it the with body of the runner
Propagate(e) ==
    /\ pc' = "raising"
    /\ ret' = [Result("run", NoAction, Nothing, FALSE) EXCEPT !.exc = e]
    /\ agent' = [agent EXCEPT !.at = "raised"]

\* agent_cls(args, env); agent.run(env): the generator is made, not started
NewAgent(a) ==
    /\ pc = "running"
    /\ agent.at = "none"
    /\ agent' = [NoAgent EXCEPT !.at = "start", !.args = a]
    /\ UNCHANGED EnvVars

\* LoopTest without the test of agent_max_steps
LoopTest_unbounded ==
    /\ pc = "running"
    /\ agent.at = "start"
    /\ agent' = IF is_final
                   THEN [agent EXCEPT !.at = "returned"]
                   ELSE [agent EXCEPT !.at = "retrieval"]
    /\ UNCHANGED EnvVars

\* the generator is started: feedback = "", then the test of the while
LoopTest ==
    /\ pc = "running"
    /\ agent.at = "start"
    /\ agent' = IF is_final \/ Len(agent.history_steps) >= agent.args.agent_max_steps
                   THEN [agent EXCEPT !.at = "returned"]
                   ELSE [agent EXCEPT !.at = "retrieval"]
    /\ UNCHANGED EnvVars

RetrievalAction == [name |-> "Retrieval from Research Log", args |-> Dict]

\* the retrieval from the research log and the prompt built on it
Retrieve(o) ==
    /\ agent.at = "retrieval"
    /\ ExecuteCall(RetrievalAction, o)
    /\ UNCHANGED children
    /\ agent' =
           IF ret'.exc # NoException THEN [agent EXCEPT !.at = "raised"]
           ELSE LET a == [agent EXCEPT
                              !.relevant_history = ret'.observation,
                              !.prompt = Prompt(ret'.observation, agent.feedback),
                              !.tries = 0,
                              !.valid_response = FALSE]
                IN  IF agent.args.max_retries > 0
                       THEN [a EXCEPT !.at = "complete"]
                       ELSE [a EXCEPT !.at = "returned", !.result = NoValidResponse]

\* completion = complete_text(prompt, ...): c is what the service does
CompleteText(c, dt) ==
    /\ pc = "running"
    /\ agent.at = "complete"
    /\ Tick(dt)
    /\ IF AlarmDue(dt) THEN Propagate(TimeoutException)
       ELSE IF c.kind = "raise" THEN Propagate(c.exc)
       ELSE /\ agent' = [agent EXCEPT !.at = "parse", !.completion = c]
            /\ UNCHANGED <<pc, ret>>
    /\ UNCHANGED <<children, disk, work_dir, args, trace, start_time, sessions>>

\* ParseEntries that asks for another completion after every failure
ParseEntries_without_ceiling(dt) ==
    /\ pc = "running"
    /\ agent.at = "parse"
    /\ Tick(dt)
    /\ LET c == agent.completion
           valid_response == /\ ~AlarmDue(dt)
                             /\ c.parses
                             /\ c.action \in all_tool_names
           tries == agent.tries + 1
       IN  agent' =
               IF valid_response
                  THEN [agent EXCEPT !.at = "parse_input",
                                     !.tries = tries,
                                     !.valid_response = TRUE,
                                     !.entries = [Action |-> c.action,
                                                  ActionInput |-> NotADict]]
               ELSE [agent EXCEPT !.at = "complete",
                                  !.tries = tries,
                                  !.prompt = @ \o IncorrectFormat]
    /\ UNCHANGED <<children, disk, work_dir, args, trace, start_time, pc, ret, sessions>>

\* try: parse_entries, assert ...; except: (anything raised in the try
\* block, the handler's TimeoutException too, discards the response); then
\* the next round of the for loop or the end of it
ParseEntries(dt) ==
    /\ pc = "running"
    /\ agent.at = "parse"
    /\ Tick(dt)
    /\ LET c == agent.completion
           valid_response == /\ ~AlarmDue(dt)
                             /\ c.parses
                             /\ c.action \in all_tool_names
           tries == agent.tries + 1
       IN  agent' =
               IF valid_response
                  THEN [agent EXCEPT !.at = "parse_input",
                                     !.tries = tries,
                                     !.valid_response = TRUE,
                                     !.entries = [Action |-> c.action,
                                                  ActionInput |-> NotADict]]
               ELSE IF tries < agent.args.max_retries
                  THEN [agent EXCEPT !.at = "complete",
                                     !.tries = tries,
                                     !.prompt = @ \o IncorrectFormat]
               ELSE [agent EXCEPT !.at = "returned",
                                  !.tries = tries,
                                  !.prompt = @ \o IncorrectFormat,
                                  !.result = NoValidResponse]
    /\ UNCHANGED <<children, disk, work_dir, args, trace, start_time, pc, ret, sessions>>

\* try: action_input = parse_action_input(...); except Exception as e: ...;
\* p is what parse_action_input does
ParseActionInput(p, dt) ==
    /\ pc = "running"
    /\ agent.at = "parse_input"
    /\ Tick(dt)
    /\ LET e == IF AlarmDue(dt) THEN TimeoutException ELSE p
       IN  IF e = NoException
              THEN /\ agent' = [agent EXCEPT !.at = "act",
                                             !.action_input = Dict,
                                             !.entries.ActionInput = Dict,
                                             !.parsing_error = <<>>]
                   /\ UNCHANGED <<pc, ret>>
           ELSE IF IsException(e)
              THEN /\ agent' = [agent EXCEPT !.at = "act",
                                             !.action_input = NotADict,
                                             !.parsing_error = e.msg]
                   /\ UNCHANGED <<pc, ret>>
           ELSE Propagate(e)
    /\ UNCHANGED <<children, disk, work_dir, args, trace, start_time, sessions>>

\* the agent's own invalid_action_error
AgentInvalidActionError(action) ==
    <<"The action input for ", action,
      " needs to be a valid json with proper entries. You may have missed the comma between entries or used triple quotes (json does not recognizes triple quotes). Please use the correct format and try again:\n">>
    \o Usage(action)

\* Observed with ">=" for ">" in the test of the length
Observed_at_boundary(ag, observation) ==
    [ag EXCEPT !.full_observation = observation,
               !.observation = observation,
               !.descriptions = <<>>,
               !.fast_calls = <<>>,
               !.at = IF len(observation) >= 10000 THEN "summarize" ELSE "yield"]

\* full_observation = observation; if len(observation) > 10000: ...
Observed(ag, observation) ==
    [ag EXCEPT !.full_observation = observation,
               !.observation = observation,
               !.descriptions = <<>>,
               !.fast_calls = <<>>,
               !.at = IF len(observation) > 10000 THEN "summarize" ELSE "yield"]

\* the action is executed in the Environment, or the parsing error is made
\* the observation
Act(o) ==
    /\ pc = "running"
    /\ agent.at = "act"
    /\ IF agent.action_input.isdict
          THEN /\ ExecuteCall([name |-> agent.entries.Action,
                               args |-> agent.action_input], o)
               /\ UNCHANGED children
               /\ agent' = IF ret'.exc # NoException
                              THEN [agent EXCEPT !.at = "raised"]
                              ELSE Observed(agent, ret'.observation)
          ELSE /\ agent' = Observed(agent,
                               <<"ActionInputParsingError: ">> \o agent.parsing_error
                               \o <<"\n">> \o AgentInvalidActionError(agent.entries.Action))
               /\ UNCHANGED EnvVars

\* blocks[idx] = observation[bs*idx : bs*idx + bs], as the characters it
\* spans: from (inclusive) to (exclusive)
Block(observation, idx) ==
    [from |-> bs * idx,
     to |-> IF bs * idx + bs <= len(observation) THEN bs * idx + bs
            ELSE len(observation)]

\* a call of complete_text_fast that returned: on a block or on the
\* descriptions of the segments, and its completion
FastCall(kind, block, completion) ==
    [kind |-> kind, from |-> block.from, to |-> block.to, completion |-> completion]

\* summarize_observation: complete_text_fast on the next block
SummarizeBlock(c, dt) ==
    /\ pc = "running"
    /\ agent.at = "summarize"
    /\ Len(agent.descriptions) < Blocks(agent.full_observation)
    /\ Tick(dt)
    /\ IF AlarmDue(dt) THEN Propagate(TimeoutException)
       ELSE IF c.kind = "raise" THEN Propagate(c.exc)
       ELSE /\ agent' = [agent EXCEPT
                     !.descriptions = Append(@, c.text),
                     !.fast_calls = Append(@, FastCall("block",
                         Block(agent.full_observation, Len(agent.descriptions)),
                         c.text))]
            /\ UNCHANGED <<pc, ret>>
    /\ UNCHANGED <<children, disk, work_dir, args, trace, start_time, sessions>>

\* summarize_observation: the one description, or complete_text_fast on the
\* descriptions of the segments
SummarizeSegments(c, dt) ==
    /\ pc = "running"
    /\ agent.at = "summarize"
    /\ Len(agent.descriptions) = Blocks(agent.full_observation)
    /\ IF Len(agent.descriptions) = 1
          THEN /\ agent' = [agent EXCEPT !.at = "extract",
                                         !.observation = agent.descriptions[1]]
               /\ UNCHANGED <<now, alarm, pc, ret>>
          ELSE /\ Tick(dt)
               /\ IF AlarmDue(dt) THEN Propagate(TimeoutException)
                  ELSE IF c.kind = "raise" THEN Propagate(c.exc)
                  ELSE /\ agent' = [agent EXCEPT
                                !.at = "extract",
                                !.observation = c.text,
                                !.fast_calls = Append(@, FastCall("segments",
                                    [from |-> 0, to |-> 0], c.text))]
                       /\ UNCHANGED <<pc, ret>>
    /\ UNCHANGED <<children, disk, work_dir, args, trace, start_time, sessions>>

\* summarize_observation: try: return completion.split(...)[1]
\* except: return completion
ExtractObservation(dt) ==
    /\ pc = "running"
    /\ agent.at = "extract"
    /\ Tick(dt)
    /\ agent' = [agent EXCEPT
           !.at = "yield",
           !.observation = IF ~AlarmDue(dt) /\ Contains(@, Marker)
                              THEN AfterMarker(@) ELSE @]
    /\ UNCHANGED <<children, disk, work_dir, args, trace, start_time, pc, ret, sessions>>

\* feedback = (yield info): run() is suspended, its caller holds info
Yield ==
    /\ pc = "running"
    /\ agent.at = "yield"
    /\ agent' = [agent EXCEPT !.at = "suspended"]
    /\ ret' = [Result("yield", [name |-> agent.entries.Action,
                                args |-> agent.entries.ActionInput],
                      Nothing, FALSE)
                  EXCEPT !.observation = agent.observation]
    /\ UNCHANGED <<children, disk, work_dir, args, trace, start_time, now, alarm, pc, sessions>>

\* the caller sends the feedback: json.dump(..., fp=full_log), then
\* fp.write('\n') with no name fp in scope
Send(feedback, dt) ==
    /\ pc = "running"
    /\ agent.at = "suspended"
    /\ Tick(dt)
    /\ pc' = "raising"
    /\ ret' = [Result("run", NoAction, Nothing, FALSE)
                  EXCEPT !.exc = IF AlarmDue(dt) THEN TimeoutException ELSE NameError]
    /\ agent' = [agent EXCEPT
           !.at = "raised",
           !.feedback = feedback,
           !.full_log = IF AlarmDue(dt) THEN @
                        ELSE Append(@, [full_observation |-> agent.full_observation,
                                        observation |-> agent.observation,
                                        feedback |-> feedback])]
    /\ UNCHANGED <<children, disk, work_dir, args, trace, start_time, sessions>>

----------------------------------------------------------------------------
(* One session of the runner's with statement around a ResearchAgent *)

AgentArgs == [agent_max_steps : {0, 1}, max_retries : 1..MaxRetries]

SessionArgs ==
    [max_steps : 0..(MaxSteps - 1), max_time : {1, 2}, log_dir : {"logs1"},
     resume : {NoResume}, resume_step : {0}]

\* what the completion service answers: a response that names a tool, one
\* that names none, one that does not parse, or an error of the service
Completions ==
    {[kind |-> "return", parses |-> TRUE, action |-> "Write File", text |-> <<>>],
     [kind |-> "return", parses |-> TRUE, action |-> "NoSuchTool", text |-> <<>>],
     [kind |-> "return", parses |-> FALSE, action |-> "", text |-> <<>>]}

LLMFailure ==
    [kind |-> "raise", exc |-> [type |-> "LLMError", msg |-> <<"overloaded">>],
     parses |-> FALSE, action |-> "", text |-> <<>>]

\* what complete_text_fast answers to a summarization prompt
Summaries ==
    {[kind |-> "return", parses |-> FALSE, action |-> "",
      text |-> <<Marker, "summary">>],
     [kind |-> "return", parses |-> FALSE, action |-> "", text |-> <<"summary">>]}

\* what parse_action_input does
Parsings == {NoException, [type |-> "Exception", msg |-> <<"Expecting value">>]}

\* the behaviours of a tool under the agent
AgentOutcomes ==
    {Returns(<<"ok">>, dt, WrittenDir, FALSE) : dt \in {0, 1}}
    \cup {Returns(<<t>>, 0, WrittenDir, FALSE) : t \in {"x*10000", "x*10001", "x*20001"}}
    \cup {Raises("EnvException", <<"cannot write">>, 0, WrittenDir, FALSE)}

Feedbacks == {<<"">>, <<"go on">>}

InitAgent ==
    \E a \in SessionArgs :
        LET s == Constructed(PristineDisk, TaskDir, a, TRUE, 0, 1)
        IN  /\ disk = s.disk
            /\ work_dir = s.work_dir
            /\ args = s.args
            /\ trace = s.trace
            /\ start_time = s.start_time
            /\ now = s.now
            /\ alarm = s.alarm
            /\ pc = s.pc
            /\ ret = s.ret
            /\ sessions = s.sessions
            /\ agent = NoAgent
            /\ children = 0

NextAgent ==
    \/ Enter
    \/ \E a \in AgentArgs : NewAgent(a)
    \/ LoopTest
    \/ \E o \in AgentOutcomes : Retrieve(o)
    \/ \E c \in Completions \cup {LLMFailure}, dt \in {0, 1} : CompleteText(c, dt)
    \/ \E dt \in {0, 1} : ParseEntries(dt)
    \/ \E p \in Parsings, dt \in {0, 1} : ParseActionInput(p, dt)
    \/ \E o \in AgentOutcomes : Act(o)
    \/ \E c \in Summaries \cup {LLMFailure}, dt \in {0, 1} : SummarizeBlock(c, dt)
    \/ \E c \in Summaries \cup {LLMFailure}, dt \in {0, 1} : SummarizeSegments(c, dt)
    \/ \E dt \in {0, 1} : ExtractObservation(dt)
    \/ Yield
    \/ \E feedback \in Feedbacks, dt \in {0, 1} : Send(feedback, dt)
    \/ Exit
    \/ SaveFinal

SpecAgent == InitAgent /\ [][NextAgent]_vars

----------------------------------------------------------------------------
(* Properties of the deadline inside the loop of ResearchAgent.run *)

\* this step is taken inside a cycle of the loop and the alarm fires in it
AlarmFiresInLoop ==
    /\ agent.at \notin {"none", "start", "returned", "raised"}
    /\ alarm.state = "armed"
    /\ alarm'.state = "fired"

\* the TimeoutException leaves run() for the teardown of the session
TimeoutPropagates ==
    /\ pc' = "raising"
    /\ ret'.exc = TimeoutException
    /\ agent'.at = "raised"

\* C8 as stated: whenever the deadline alarm fires during a cycle of the
\* control loop (in a tool, in a completion call, in the parsing of the
\* response or of the action input, in the summarization of the
\* observation), the timeout leaves the loop for the teardown of the
\* session; it is never turned into an observation or a retry.
C8_AsStated == [][AlarmFiresInLoop => TimeoutPropagates]_vars

\* C8 at the places of the loop outside a try statement, and inside a tool:
\* there the timeout does leave the loop
C8_OutsideTry ==
    [][AlarmFiresInLoop /\ agent.at \notin {"parse", "parse_input", "extract"}
       => TimeoutPropagates]_vars

\* C8: the alarm has fired during parse_action_input and its message is the
\* parsing error of the observation handed to the caller of run()
C8_TimeoutAsObservation ==
    /\ agent.at = "suspended"
    /\ alarm.state = "fired"
    /\ agent.parsing_error = TimeoutException.msg
    /\ Contains(agent.observation, "Timed out!")
    /\ pc = "running"


\* C9: a run resumed from another log dir than its own, whose workspace is
\* not the one recorded for the step it resumes at
C9_CrossDirWitness ==
    /\ Resumed
    /\ args.log_dir # args.resume
    /\ trace.steps = SubSeq(disk[args.resume].trace_json.steps, 1, args.resume_step + 1)
    /\ work_dir # disk[args.resume].trace_json.steps[args.resume_step + 1].ws

----------------------------------------------------------------------------
(* A session whose process can be killed inside execute *)

\* trace.json after open(..., "w") and a part of json.dump: a cut document,
\* from which no step can be read
TornFile == [steps |-> <<>>, low_level_steps |-> <<>>, action_infos |-> <<>>, exists |-> TRUE]

\* the places of execute at which the process can be killed: inside the
\* branches, up to trace.steps.append; inside json.dump of save; inside the
\* copy of the snapshot
CrashPoints == {"call", "dump", "copy"}

\* the process is killed inside execute(action), at point
Crash(action, o, point) ==
    /\ pc = "running"
    /\ Len(trace.steps) < MaxSteps
    /\ ClockRuns(o.dt)
    /\ LET curr_step == Len(trace.steps)
           r == Dispatch(action, o)
           step_time == IF r.invoked THEN now + o.dt ELSE now
           w == IF r.invoked THEN o.write ELSE work_dir
           appended == Appended(trace, action, r.observation, step_time, w,
                                trace.low_level_steps)
       IN  /\ point # "call" => r.exc = NoException
           /\ now' = step_time
           /\ work_dir' = w
           /\ disk' =
                  IF point = "call" THEN disk
                  ELSE IF point = "dump"
                     THEN [disk EXCEPT ![args.log_dir].trace_json = TornFile]
                  ELSE [disk EXCEPT ![args.log_dir].trace_json = ToJson(appended),
                                    ![args.log_dir].traces[curr_step] = NoDir]
    /\ pc' = "crashed"
    /\ Ended
    /\ UNCHANGED <<sessions, children>>

NextCrash ==
    \/ Next
    \/ \E action \in Actions, o \in Outcomes, point \in CrashPoints :
           Crash(action, o, point)

SpecCrash == Init /\ [][NextCrash]_vars

\* the steps that can be read from the trace file of the session's log dir
\* hold all of steps
Durable(d, log_dir, steps) ==
    LET durable == d[log_dir].trace_json.steps
    IN  /\ d[log_dir].trace_json.exists
        /\ Len(durable) >= Len(steps)
        /\ SubSeq(durable, 1, Len(steps)) = steps

\* C11 as stated: whenever execute has returned, the trace file holds every
\* Step of the in-memory trace, the one just appended included; and when the
\* process is killed at any point of an execute call, the trace file lacks
\* at most the step being executed: every step recorded before the call can
\* be read from it.
C11_AsStated ==
    [][/\ ExecuteReturned
          => /\ Durable(disk', args.log_dir, trace'.steps)
             /\ Len(disk'[args.log_dir].trace_json.steps) = Len(trace'.steps)
       /\ pc' = "crashed" /\ trace.steps # <<>>
          => Durable(disk', args.log_dir, trace.steps)]_vars

\* C11, its first half: whenever execute has returned, the trace file holds
\* exactly the steps of the in-memory trace
C11_AfterReturn ==
    [][ExecuteReturned
       => /\ Durable(disk', args.log_dir, trace'.steps)
          /\ Len(disk'[args.log_dir].trace_json.steps) = Len(trace'.steps)]_vars

\* C11: the process was killed inside json.dump of the second execute, and
\* the step that the first execute had made durable can no longer be read
C11_TornWitness ==
    /\ pc = "crashed"
    /\ disk["logs1"].trace_json = TornFile
    /\ disk["logs1"].traces[0] # NoDir

----------------------------------------------------------------------------
(* Properties of the timestamps *)

Monotone(steps) ==
    \A i \in 1..(Len(steps) - 1) : steps[i].timestamp <= steps[i + 1].timestamp

\* C12: in every trace, in memory or in a trace file, of a fresh session or
\* of one continued after a resume, the timestamps of the steps never
\* decrease along the trace (the clock now never goes back).
C12_TimestampMonotonicity ==
    /\ Monotone(trace.steps)
    /\ \A l \in LogDirs : Monotone(disk[l].trace_json.steps)

\* C12, its case: a resumed session has appended a step, later than the
\* steps it took over from the trace it resumed
C12_Witness ==
    /\ args.resume # NoResume
    /\ pc = "running"
    /\ ret.op = "execute"
    /\ Len(trace.steps) >= 2
    /\ trace.steps[1].timestamp < trace.steps[Len(trace.steps)].timestamp
    /\ trace.steps[1] = disk[args.resume].trace_json.steps[1]


\* tools that differ in the time they take only
TimedRuns == {Returns(<<"ok">>, dt, WrittenDir, TRUE) : dt \in {0, 1}}

\* the arguments of the runs that follow the first: on either log dir,
\* fresh or resumed from either at any step
ContinueArgs ==
    [max_steps : {MaxSteps}, max_time : {1}, log_dir : LogDirs,
     resume : {NoResume} \cup LogDirs, resume_step : StepIndices]

\* sessions one after another over the log dirs, fresh or resumed, run by
\* tools that differ in the time they take; the workspace is a large one
\* (no copy of it is made in the log dir)
NextTimed ==
    \/ Enter
    \/ \E o \in TimedRuns : Execute(WriteFileAction, o)
    \/ Exit
    \/ SaveFinal
    \/ \E a \in ContinueArgs : EnvInit(a, FALSE)

SpecTimed == InitResume /\ [][NextTimed]_vars

----------------------------------------------------------------------------
(* Properties of the loop of ResearchAgent.run *)

\* the completion in hand does not parse or names no tool of the registry
InvalidCompletion ==
    /\ agent.at = "parse"
    /\ ~(agent.completion.parses /\ agent.completion.action \in Range(ActionNames))

\* C13: in a cycle whose completions all fail to parse or name an action
\* that is not in the registry, every failure appends the corrective
\* instruction to the prompt and counts as one try; the completion service
\* is called again only while fewer than max_retries tries were made; after
\* the max_retries-th failure run() ends with "No valid response after
\* max_retries", nothing is raised, no action is executed, and the loop
\* does not go on.
C13_RetryCeiling ==
    [][/\ InvalidCompletion /\ agent'.at # "parse"
          => /\ agent'.tries = agent.tries + 1
             /\ agent'.prompt = agent.prompt \o
                    <<"Your response was in incorrect format. Please provide a valid response with all entries: ">>
             /\ agent'.at = IF agent'.tries < agent.args.max_retries
                               THEN "complete" ELSE "returned"
             /\ agent'.at = "returned"
                => /\ agent'.result = <<"No valid response after max_retries">>
                   /\ agent'.tries = agent.args.max_retries
             /\ pc' = "running"
             /\ trace' = trace
             /\ disk' = disk
       /\ agent.at = "complete" /\ agent'.at = "parse"
          => agent.tries < agent.args.max_retries
       /\ agent.at = "returned" => agent'.at \in {"returned", "none"}]_vars

\* C13, its case: max_retries = 2 completions were asked for and discarded,
\* run() has returned the failure result, only the retrieval is in the trace
C13_Witness ==
    /\ agent.at = "returned"
    /\ agent.result = NoValidResponse
    /\ agent.args.max_retries = 2
    /\ agent.tries = 2
    /\ Len(agent.prompt) = Len(Prompt(agent.relevant_history, agent.feedback)) + 2
    /\ Len(trace.steps) = 1
    /\ pc = "running"
    /\ alarm.state = "armed"


\* run() has the observation of the cycle and is done with summarizing it
ObservationReady == agent.at \in {"yield", "suspended"}

\* C14 as stated: in the loop, an observation of exactly 10,000 units is
\* summarized, with exactly one secondary completion call and no reduction
\* call.
C14_AsStated ==
    ObservationReady /\ len(agent.full_observation) = 10000
    => Len(agent.descriptions) = 1

\* C14, amended: the loop summarizes an observation exactly when its length
\* exceeds 10,000 units; one of exactly 10,000 units (or fewer) is handed on
\* as it is, and no secondary completion call is made for it.
C14_SummarizedAboveBoundary ==
    [][/\ agent.at = "act" /\ agent'.at \notin {"act", "raised", "none"}
          => /\ agent'.at = (IF len(agent'.full_observation) > 10000
                                THEN "summarize" ELSE "yield")
             /\ agent'.descriptions = <<>>
             /\ agent'.observation = agent'.full_observation
       /\ ObservationReady' /\ len(agent'.full_observation) <= 10000
          => /\ agent'.descriptions = <<>>
             /\ agent'.observation = agent'.full_observation
       /\ agent'.at \in {"summarize", "extract"}
          => len(agent'.full_observation) > 10000]_vars

\* C14, its case: the tool returned exactly 10,000 units and the caller of
\* run() holds them unsummarized
C14_Witness ==
    /\ agent.at = "suspended"
    /\ len(agent.full_observation) = 10000
    /\ agent.observation = agent.full_observation
    /\ agent.descriptions = <<>>
    /\ ret.observation = agent.full_observation


\* observation.startswith("ActionInputParsingError"): of the texts of the
\* model, those that the agent builds on a parsing error
StartsWithParsingError(observation) ==
    observation # <<>> /\ Head(observation) = "ActionInputParsingError: "

\* the caller of run() has sent its feedback, and no alarm cut short what
\* run() does with it
FeedbackReceived ==
    /\ agent.at = "suspended"
    /\ agent'.at \notin {"suspended", "none"}
    /\ ret'.exc # TimeoutException

\* C15 as stated: the history is updated in each cycle, and after the
\* update the newest entry is the cycle's; if its observation does not begin
\* with "ActionInputParsingError", no entry of the history begins with it;
\* if it does, no entry was removed in the cycle.
C15_AsStated ==
    [][FeedbackReceived
       => LET h == agent'.history_steps
          IN  /\ h # <<>>
              /\ h[Len(h)].observation = agent.observation
              /\ ~StartsWithParsingError(agent.observation)
                 => \A i \in 1..Len(h) : ~StartsWithParsingError(h[i].observation)
              /\ StartsWithParsingError(agent.observation)
                 => SubSeq(h, 1, Len(h) - 1) = agent.history_steps]_vars

\* C15: the feedback of a cycle was written to full_log and run() ended on
\* the NameError of the next line, the history still empty
C15_NeverUpdated ==
    /\ agent.at = "raised"
    /\ ret.exc = NameError
    /\ Len(agent.full_log) = 1
    /\ agent.history_steps = <<>>
    /\ ~StartsWithParsingError(agent.observation)


\* a cycle of the loop starts in this step
CycleStarts == agent.at # "retrieval" /\ agent'.at = "retrieval"

\* C16: a cycle of the loop starts only when the Environment is not final
\* (step budget left, no Final Answer, time budget not exceeded) and fewer
\* than agent_max_steps cycles are in the history; a run() goes through the
\* test of the loop once, from its start, so it runs at most one cycle, and
\* none when agent_max_steps is 0: never more than agent_max_steps; once
\* run() has ended it starts nothing.
C16_LoopBound ==
    [][/\ CycleStarts
          => /\ agent.at = "start"
             /\ Len(trace.steps) < args.max_steps
             /\ ~AnyFinalAnswer(trace.steps)
             /\ Elapsed <= args.max_time
             /\ Len(agent.history_steps) < agent.args.agent_max_steps
             /\ agent.args.agent_max_steps >= 1
       /\ agent.at \notin {"none", "start"} => agent'.at # "start"
       /\ agent.at \in {"returned", "raised"}
          => agent'.at \in {agent.at, "none"}]_vars

\* C16, its case: with agent_max_steps = 1 one cycle has run to its yield;
\* with a step budget of 0 or agent_max_steps = 0 the test of the loop ended
\* run() at once (C16_NoCycle)
C16_Witness ==
    /\ agent.at = "suspended"
    /\ agent.args.agent_max_steps = 1
    /\ Len(trace.steps) = 2
    /\ agent.history_steps = <<>>

C16_NoCycle ==
    /\ agent.at = "returned"
    /\ agent.args.agent_max_steps = 1
    /\ args.max_steps = 0
    /\ trace.steps = <<>>
    /\ agent.tries = 0

----------------------------------------------------------------------------
(* A session whose tools leave child processes running *)

MaxChildren == 2

\* execute(action) whose callable starts n child processes that outlive it
ExecuteSpawn(action, o, n) ==
    /\ children + n <= MaxChildren
    /\ ExecuteCall(action, o)
    /\ children' = IF ret'.invoked THEN children + n ELSE children
    /\ UNCHANGED agent

NextTeardown ==
    \/ Next
    \/ \E action \in Actions, o \in Outcomes : ExecuteSpawn(action, o, 1)

SpecTeardown == Init /\ [][NextTeardown]_vars

\* the with statement is left in this step
ScopeLeft == pc \in {"running", "raising"} /\ pc' \in {"left", "aborted"}

\* what the claim asks of the teardown
TornDown ==
    /\ children' = 0
    /\ disk'[args.log_dir].overall_time_txt = now' - start_time
    /\ disk'[args.log_dir].error_txt =
           IF pc = "raising" THEN ret.exc.type ELSE disk[args.log_dir].error_txt
    /\ pc = "raising" => ret.exc.type # "none"

\* the files of teardown are not written again after the scope was left
TornDownOnce ==
    pc \in {"left", "aborted", "done"} /\ pc' \in {"left", "aborted", "done"}
    => /\ \A l \in LogDirs :
              /\ disk'[l].overall_time_txt = disk[l].overall_time_txt
              /\ disk'[l].error_txt = disk[l].error_txt
       /\ children' = children

\* C17 as stated: on every way out of the with statement (normal end,
\* uncaught exception, timeout) teardown runs exactly once: every active
\* child process is terminated and waited on, overall_time.txt is written,
\* and error.txt is written exactly when an exception caused the exit.
C17_AsStated == [][(ScopeLeft => TornDown) /\ TornDownOnce]_vars

\* C17 where the alarm does not go off inside __exit__: there the claim
\* holds
C17_NotInterrupted ==
    [][(ScopeLeft /\ ~(alarm.state = "armed" /\ now' >= alarm.at) => TornDown)
       /\ TornDownOnce]_vars

\* C17: the with body ended normally with a child still running, the alarm
\* went off while __exit__ waited for it, and neither file was written
C17_TeardownCut ==
    /\ pc = "aborted"
    /\ children > 0
    /\ disk["logs1"].overall_time_txt = -1
    /\ disk["logs1"].error_txt = ""
    /\ disk["logs1"].trace_json.exists


\* an exception leaves run() in this step
LeavesLoop == agent.at \notin {"none", "raised"} /\ pc = "running" /\ pc' = "raising"

\* C18 as stated: in every cycle, from the building of the prompt to the
\* steps that follow the feedback, no exception but the deadline's
\* TimeoutException leaves the loop; an exception raised while the
\* observation (or the log entry) is summarized is caught, and the
\* summarization is tried again.
C18_AsStated ==
    [][/\ LeavesLoop => ret'.exc = TimeoutException
       /\ agent.at = "summarize" /\ agent'.at = "raised"
          => ret'.exc = TimeoutException]_vars

\* C18: an error of the completion service, raised while the second block
\* of a long observation was summarized, has left run()
C18_ServiceErrorLeft ==
    /\ agent.at = "raised"
    /\ pc = "raising"
    /\ ret.exc = LLMFailure.exc
    /\ len(agent.full_observation) > 10000
    /\ Len(agent.descriptions) = 1

----------------------------------------------------------------------------
(* A session whose caller calls env.save itself *)

\* env.save(curr_step), called by the caller of the Environment
Save(curr_step) ==
    /\ pc = "running"
    /\ disk' = save(disk, args.log_dir, curr_step, trace, work_dir)
    /\ ret' = Result("save",
                     [name |-> "", args |-> [isdict |-> FALSE,
                                             text |-> ToString(curr_step)]],
                     Nothing, FALSE)
    /\ UNCHANGED <<work_dir, args, trace, start_time, now, alarm, pc, sessions,
                   agent, children>>

\* tool runs that finish at once and leave different workspaces
SaveRuns ==
    {Returns(<<"ok">>, 0, [files |-> f, backup |-> "b1"], TRUE) : f \in {"f0", "f1"}}

NextSave ==
    \/ Enter
    \/ \E o \in SaveRuns : Execute(WriteFileAction, o)
    \/ \E curr_step \in StepIndices : Save(curr_step)
    \/ Exit
    \/ SaveFinal

SpecSave == Init /\ [][NextSave]_vars

\* save(curr_step) is called in this step
Saves(curr_step) ==
    /\ pc = "running"
    /\ pc' = "running"
    /\ ret'.op = "save"
    /\ ret'.action.args.text = ToString(curr_step)

\* C19: a call of save for a step index leaves in the snapshot of that index
\* the workspace as it is, and leaves the snapshots of the other indices and
\* the workspace as they are; a second call for the same index, the
\* workspace not changed since the first, leaves the snapshot (and the
\* whole log dir) as the first call left it.
C19_SnapshotIdempotence ==
    [][\A k \in StepIndices :
           Saves(k)
           => /\ disk'[args.log_dir].traces[k] = work_dir
              /\ \A n \in StepIndices \ {k} :
                     disk'[args.log_dir].traces[n] = disk[args.log_dir].traces[n]
              /\ work_dir' = work_dir
              /\ ret.op = "save" /\ ret.action.args.text = ToString(k)
                 => disk' = disk]_vars

\* C19, its case: save(0) was called twice in a row, after two steps were
\* recorded; the snapshot of step 0 now holds the workspace of step 1, and
\* the snapshot of step 1 is in place
C19_Witness ==
    /\ ret.op = "save"
    /\ ret.action.args.text = "0"
    /\ Len(trace.steps) = 2
    /\ trace.steps[1].ws # trace.steps[2].ws
    /\ disk["logs1"].traces[0] = work_dir
    /\ disk["logs1"].traces[1] = work_dir
    /\ disk["logs1"].traces[0] # trace.steps[1].ws


----------------------------------------------------------------------------
(* summarize_observation applied to observations of any length *)

\* the observations handed to summarize_observation: shorter than a block,
\* one block exactly, and up to three blocks
LongObservations ==
    {<<"ok">>, <<"x*10000">>, <<"x*10001">>, <<"x*20000">>, <<"x*20001">>,
     <<"x*25000">>}

\* what complete_text_fast answers: as Summaries, or with text in front of
\* the marker, or with the marker a second time
MarkedSummaries ==
    Summaries
    \cup {[kind |-> "return", parses |-> FALSE, action |-> "",
           text |-> <<"Here it is.", Marker, "summary">>],
          [kind |-> "return", parses |-> FALSE, action |-> "",
           text |-> <<Marker, "summary", Marker, "details">>]}

\* the session is constructed and summarize_observation is about to be
\* called with the observation
InitSummarize ==
    \E a \in SessionArgs, observation \in LongObservations :
        LET s == Constructed(PristineDisk, TaskDir, a, TRUE, 0, 1)
        IN  /\ disk = s.disk
            /\ work_dir = s.work_dir
            /\ args = s.args
            /\ trace = s.trace
            /\ start_time = s.start_time
            /\ now = s.now
            /\ alarm = s.alarm
            /\ pc = s.pc
            /\ ret = s.ret
            /\ sessions = s.sessions
            /\ agent = [Observed(NoAgent, observation) EXCEPT !.at = "summarize"]
            /\ children = 0

NextSummarize ==
    \/ Enter
    \/ \E c \in MarkedSummaries \cup {LLMFailure}, dt \in {0, 1} : SummarizeBlock(c, dt)
    \/ \E c \in MarkedSummaries \cup {LLMFailure}, dt \in {0, 1} : SummarizeSegments(c, dt)
    \/ \E dt \in {0, 1} : ExtractObservation(dt)

SpecSummarize == InitSummarize /\ [][NextSummarize]_vars

\* summarize_observation has returned
SummaryReturned == agent.at = "yield" /\ agent.fast_calls # <<>>

\* the calls on blocks among the completion calls made
BlockCalls == SelectSeq(agent.fast_calls, LAMBDA c : c.kind = "block")

\* n calls on blocks were made, n = ceil(L / 10000), on contiguous blocks of
\* 10000 units in order, followed by one call on the segments exactly if n > 1
CallsAsClaimed ==
    LET L == len(agent.full_observation)
        n == Len(BlockCalls)
    IN  /\ n * 10000 >= L
        /\ (n - 1) * 10000 < L
        /\ \A i \in 1..n :
               /\ agent.fast_calls[i].kind = "block"
               /\ agent.fast_calls[i].from = (i - 1) * 10000
               /\ agent.fast_calls[i].to = IF i < n THEN i * 10000 ELSE L
        /\ Len(agent.fast_calls) = IF n > 1 THEN n + 1 ELSE n
        /\ n > 1 => Last(agent.fast_calls).kind = "segments"

\* the text after the first marker, to the end
RECURSIVE AllAfterMarker(_)
AllAfterMarker(text) ==
    IF Head(text) = Marker THEN Tail(text) ELSE AllAfterMarker(Tail(text))

\* C20: when summarize_observation has returned for an observation of
\* length L > 0, it made exactly ceil(L / 10000) completion calls on
\* contiguous blocks in order, and one more on the segments exactly when
\* there is more than one block; its result is the text after the marker in
\* the last completion, or that completion when it holds no marker.
C20_AsStated ==
    SummaryReturned /\ len(agent.full_observation) > 0
    => /\ CallsAsClaimed
       /\ LET completion == Last(agent.fast_calls).completion
          IN  agent.observation = IF Contains(completion, Marker)
                                     THEN AllAfterMarker(completion)
                                     ELSE completion

\* C20, the calls: the count and the order of the completion calls are as
\* the claim has them, for every length
C20_CallCount ==
    SummaryReturned /\ len(agent.full_observation) > 0 => CallsAsClaimed

\* C20, the result: unless the alarm went off in the extraction, the result
\* is the text between the first marker of the last completion and its next
\* marker (or its end), or the completion when it holds no marker; when the
\* alarm went off there, the result is the completion, marker or not
C20_FirstPieceAfterMarker ==
    SummaryReturned
    => LET completion == Last(agent.fast_calls).completion
       IN  agent.observation = IF Contains(completion, Marker) /\ alarm.state # "fired"
                                  THEN AfterMarker(completion)
                                  ELSE completion

\* C20, the case of 25,000 units: three calls on blocks and one on the
\* segments; the last completion holds the marker twice and the result
\* stops at the second one
C20_CutAtSecondMarker ==
    /\ SummaryReturned
    /\ len(agent.full_observation) = 25000
    /\ Len(BlockCalls) = 3
    /\ Len(agent.fast_calls) = 4
    /\ Last(agent.fast_calls).completion = <<Marker, "summary", Marker, "details">>
    /\ agent.observation = <<"summary">>

\* C20, the alarm going off in the extraction: the bare except takes the
\* TimeoutException and the completion is returned with its marker
C20_TimeoutSwallowed ==
    /\ SummaryReturned
    /\ pc = "running"
    /\ alarm.state = "fired"
    /\ Last(agent.fast_calls).completion = <<Marker, "summary">>
    /\ agent.observation = <<Marker, "summary">>

\* the result for one block of exactly 10,000 units: one call, no reduction
C20_OneBlock ==
    /\ SummaryReturned
    /\ len(agent.full_observation) = 10000
    /\ Len(agent.fast_calls) = 1


----------------------------------------------------------------------------
(* Properties of the action input that does not parse *)

\* the cycle's observation is that of an action input that did not parse
ParsingFailed ==
    /\ ObservationReady
    /\ ~agent.action_input.isdict
    /\ StartsWithParsingError(agent.full_observation)

\* C21 as stated: when the action input of a cycle does not parse, execute
\* of the Environment was called with the chosen action and the raw input:
\* the newest Step of the trace is for the chosen action, and its
\* observation, made by execute, is the observation of the cycle.
C21_AsStated ==
    ParsingFailed
    => /\ trace.steps # <<>>
       /\ Last(trace.steps).action.name = agent.entries.Action
       /\ ~Last(trace.steps).action.args.isdict
       /\ Last(trace.steps).observation = agent.full_observation

\* C21, what holds: when the action input does not parse, the step in which
\* the observation is made calls nothing of the Environment; the trace, the
\* log dir and the workspace stay as they are, and the observation is the
\* agent's own text
C21_NothingForwarded ==
    [][agent.at = "act" /\ ~agent.action_input.isdict /\ agent'.at # "act"
       => /\ UNCHANGED <<trace, disk, work_dir, ret>>
          /\ agent'.full_observation
                 = <<"ActionInputParsingError: ">> \o agent.parsing_error
                   \o <<"\n">> \o AgentInvalidActionError(agent.entries.Action)]_vars

\* C21, its case: the input of Write File did not parse and the cycle has
\* its observation, while the only Step of the trace is the retrieval's
C21_NoStepForTheAction ==
    /\ ParsingFailed
    /\ agent.at = "suspended"
    /\ agent.entries.Action = "Write File"
    /\ Len(trace.steps) = 1
    /\ trace.steps[1].action.name = RetrievalAction.name


----------------------------------------------------------------------------
(* Properties of the research log *)

AppendLogAction == "Append Summary to Research Log"

\* the executes of the append-log action recorded in the trace
RECURSIVE LogAppends(_)
LogAppends(steps) ==
    IF steps = <<>> THEN 0
    ELSE (IF Head(steps).action.name = AppendLogAction THEN 1 ELSE 0)
         + LogAppends(Tail(steps))

\* C22 as stated: for every cycle that was resumed with a feedback value
\* (each leaves one entry in full_log), once run() is past the handling of
\* the feedback there is exactly one execute of the append-log action.
C22_AsStated ==
    agent.at # "suspended" => LogAppends(trace.steps) = Len(agent.full_log)

\* C22, what holds: run() never executes the append-log action
C22_NeverAppended ==
    LogAppends(trace.steps) = 0

\* C22, its case: a cycle reached the yield and was resumed with a feedback
\* value; run() has ended with the NameError of fp.write and nothing was
\* appended to the research log
C22_CycleWithoutAppend ==
    /\ agent.at = "raised"
    /\ ret.exc = NameError
    /\ agent.feedback = <<"go on">>
    /\ Len(agent.full_log) = 1
    /\ trace.steps # <<>>
    /\ LogAppends(trace.steps) = 0


----------------------------------------------------------------------------
(* Properties of "Final Answer" and of the end of a session *)

\* the session's Environment object is in memory
SessionLive == pc \in {"running", "raising", "left"}

\* C23: execute of an action named "Final Answer" returns "end", whatever
\* the state of the session (step or time budget exhausted or not), invokes
\* no registry callable and appends a Step for it; and from a state whose
\* trace holds a "Final Answer" step, every later state of the session holds
\* it too, so is_final() is true there.
C23_FinalAnswerPrecedence ==
    [][/\ (/\ pc = "running"
           /\ pc' \in {"running", "raising"}
           /\ ret'.op = "execute"
           /\ ret'.action.name = FinalAnswer)
          => /\ pc' = "running"
             /\ ret'.exc = NoException
             /\ ret'.observation = <<"end">>
             /\ ~ret'.invoked
             /\ Len(trace'.steps) = Len(trace.steps) + 1
             /\ Last(trace'.steps).action = ret'.action
             /\ Last(trace'.steps).observation = <<"end">>
             /\ SubSeq(trace'.steps, 1, Len(trace.steps)) = trace.steps
       /\ (SessionLive /\ SessionLive' /\ AnyFinalAnswer(trace.steps))
          => /\ AnyFinalAnswer(trace'.steps)
             /\ is_final']_vars

\* C23, its case: "Final Answer" was executed when the step budget was
\* already exhausted, and got "end"
C23_Witness ==
    /\ pc = "running"
    /\ ret.op = "execute"
    /\ ret.action.name = FinalAnswer
    /\ ret.observation = <<"end">>
    /\ Len(trace.steps) - 1 >= args.max_steps
    /\ Last(trace.steps).action.name = FinalAnswer

\* C23, its case in time: "Final Answer" was executed after the time budget
\* had run out, and got "end"
C23_WitnessLate ==
    /\ pc = "running"
    /\ ret.op = "execute"
    /\ ret.action.name = FinalAnswer
    /\ ret.observation = <<"end">>
    /\ Len(trace.steps) = 1
    /\ Elapsed > args.max_time


\* C24: within one session is_final() is stable: from a state in which it
\* is (and returns) true, it is true in the next state of the session,
\* whatever the step was; and a call of is_final returns what it is.
C24_IsFinalStable ==
    [][/\ (SessionLive /\ SessionLive' /\ is_final) => is_final'
       /\ (pc = "running" /\ pc' = "running" /\ ret'.op = "is_final")
          => (ret'.value <=> is_final')]_vars

\* C24, its case: is_final() returned true for the steps alone, in a session
\* that executed another action after the budget was used up
C24_Witness ==
    /\ pc = "running"
    /\ ret.op = "is_final"
    /\ ret.value
    /\ Len(trace.steps) > args.max_steps
    /\ ~AnyFinalAnswer(trace.steps)
    /\ Elapsed <= args.max_time


----------------------------------------------------------------------------
(* The update of history_steps (the statements after the feedback),
   applied cycle after cycle to any observations *)

MaxHistory == 4

\* history_update that only appends
history_update_append_only(history_steps, step_idx, observation, feedback) ==
    Append(history_steps,
           [step_idx |-> step_idx, observation |-> observation,
            feedback |-> feedback])

\* self.history_steps.append({...}); if not observation.startswith(
\* "ActionInputParsingError"): self.history_steps = [step for step in
\* self.history_steps if not step["observation"].startswith(...)]
history_update(history_steps, step_idx, observation, feedback) ==
    LET appended == Append(history_steps,
                           [step_idx |-> step_idx, observation |-> observation,
                            feedback |-> feedback])
    IN  IF ~StartsWithParsingError(observation)
           THEN SelectSeq(appended,
                          LAMBDA step : ~StartsWithParsingError(step.observation))
           ELSE appended

\* the observations of the cycles
CycleObservations ==
    {<<"ok">>, <<"EnvError: ", "cannot write">>,
     <<"ActionInputParsingError: ", "Expecting value">>,
     <<"ActionInputParsingError: ", "Extra data">>}

\* the history update of one cycle
UpdateHistory(observation, feedback) ==
    /\ pc = "running"
    /\ agent.at = "update_history"
    /\ Len(agent.history_steps) < MaxHistory
    /\ agent' = [agent EXCEPT
           !.observation = observation,
           !.feedback = feedback,
           !.history_steps = history_update(@, Len(trace.steps), observation, feedback)]
    /\ UNCHANGED EnvVars

InitHistory ==
    \E a \in SessionArgs :
        LET s == Constructed(PristineDisk, TaskDir, a, TRUE, 0, 1)
        IN  /\ disk = s.disk
            /\ work_dir = s.work_dir
            /\ args = s.args
            /\ trace = s.trace
            /\ start_time = s.start_time
            /\ now = s.now
            /\ alarm = s.alarm
            /\ pc = s.pc
            /\ ret = s.ret
            /\ sessions = s.sessions
            /\ agent = [NoAgent EXCEPT !.at = "update_history"]
            /\ children = 0

NextHistory ==
    \/ Enter
    \/ \E observation \in CycleObservations, feedback \in Feedbacks :
           UpdateHistory(observation, feedback)

SpecHistory == InitHistory /\ [][NextHistory]_vars

\* C25: in history_steps no entry whose observation begins with
\* "ActionInputParsingError" is followed by an entry whose observation does
\* not: the parsing-error entries are a contiguous suffix of the history.
C25_ParsingErrorsAreSuffix ==
    \A i, j \in 1..Len(agent.history_steps) :
        (i < j /\ StartsWithParsingError(agent.history_steps[i].observation))
        => StartsWithParsingError(agent.history_steps[j].observation)

\* C25, its case: two parsing errors in a row at the end of the history,
\* after an entry that is none
C25_Witness ==
    /\ Len(agent.history_steps) = 3
    /\ ~StartsWithParsingError(agent.history_steps[1].observation)
    /\ StartsWithParsingError(agent.history_steps[2].observation)
    /\ StartsWithParsingError(agent.history_steps[3].observation)
    /\ agent.observation = agent.history_steps[3].observation

\* C25, the pruning: a cycle with another observation came after parsing
\* errors, and the history holds that cycle's entry and no parsing error
C25_Pruned ==
    /\ Len(agent.history_steps) = 2
    /\ agent.history_steps[2].feedback = <<"go on">>
    /\ agent.history_steps[1].feedback = <<"">>
    /\ agent.observation = <<"ok">>
    /\ \A i \in 1..2 : ~StartsWithParsingError(agent.history_steps[i].observation)


----------------------------------------------------------------------------
(* One session whose final save takes time *)

\* the places of save at which the alarm's handler can raise: inside
\* json.dump, after open(trace.json, "w"); inside the copy of the workspace
SavePoints == {"dump", "copy"}

\* env.save("final") after the with statement, taking dt units of time; the
\* alarm set by __enter__ was not cancelled by __exit__: when it goes off,
\* the handler's TimeoutException leaves save at point and, nothing catching
\* it, ends the process
SaveFinalTimed(dt, point) ==
    /\ pc = "left"
    /\ dt > 0
    /\ ClockRuns(dt)
    /\ now' = now + dt
    /\ IF AlarmDue(dt)
          THEN /\ disk' = IF point = "dump"
                             THEN [disk EXCEPT ![args.log_dir].trace_json = TornFile]
                             ELSE [disk EXCEPT ![args.log_dir].trace_json = ToJson(trace),
                                               ![args.log_dir].final_files = NoDir]
               /\ pc' = "uncaught"
               /\ ret' = [Result("save", NoAction, Nothing, FALSE)
                             EXCEPT !.exc = TimeoutException]
          ELSE /\ disk' = [disk EXCEPT ![args.log_dir].trace_json = ToJson(trace),
                                       ![args.log_dir].final_files = work_dir]
               /\ pc' = "done"
               /\ ret' = Result("none", NoAction, Nothing, FALSE)
    /\ args' = NoArgs
    /\ trace' = [steps |-> <<>>, low_level_steps |-> <<>>]
    /\ start_time' = 0
    /\ alarm' = NoAlarm
    /\ agent' = NoAgent
    /\ UNCHANGED <<work_dir, sessions, children>>

NextScope ==
    \/ Next
    \/ \E dt \in {1}, point \in SavePoints : SaveFinalTimed(dt, point)

SpecScope == Init /\ [][NextScope]_vars

\* C26 as stated: once __exit__ has completed, no step of the program
\* raises the timeout: in particular the final save of the runner ends
\* without a TimeoutException.
C26_AsStated ==
    [][pc = "left" => ~(ret'.exc = TimeoutException /\ pc' = "uncaught")]_vars

\* C26, what holds: __exit__ leaves the alarm as it found it, so an alarm
\* that has not gone off when the scope is left is still armed after it
C26_AlarmOutlivesScope ==
    [][pc = "running" /\ pc' = "left" => alarm' = alarm]_vars

\* C26, its case: the with body ended before the deadline, __exit__ wrote
\* overall_time.txt, and the alarm went off in the final save: the process
\* ended with TimeoutException and no final snapshot
C26_TimeoutInFinalSave ==
    /\ pc = "uncaught"
    /\ ret.op = "save"
    /\ ret.exc = TimeoutException
    /\ disk["logs1"].overall_time_txt >= 0
    /\ disk["logs1"].error_txt = ""
    /\ disk["logs1"].final_files = NoDir
    /\ disk["logs1"].trace_json # TornFile

\* C26, the same with the trace file cut
C26_TornByTimeout ==
    /\ pc = "uncaught"
    /\ ret.exc = TimeoutException
    /\ disk["logs1"].trace_json = TornFile

====
